---- MODULE Spec2Model ----
(***************************************************************************)
(* Model of the DataCo supply-chain notebook-support scripts:              *)
(*   src/src/data_cleaning.py        the cleaning pipeline                 *)
(*   src/src/feature_engineering.py  the model-feature functions           *)
(*                                                                         *)
(* A table (pandas DataFrame) is a record                                  *)
(*   [cols   : sequence of column labels,                                  *)
(*    dtypes : sequence of column dtypes, aligned with cols,               *)
(*    rows   : sequence of rows, each a sequence of cells aligned with     *)
(*             cols].                                                      *)
(* A column label is a sequence of one-character strings, so that the      *)
(* string operations of standardize_columns are computed character by      *)
(* character.  A cell is a record [k, n, s]: k is its kind ("num", "null", *)
(* "str", "date", "period"), n its number and s its text.                  *)
(***************************************************************************)
EXTENDS Integers, Sequences, FiniteSets, TLC

VARIABLES
    pc,     \* position of the caller: which call is next / "done" / "error"
    df,     \* the caller's variable df (the current table)
    prev,   \* the table df held before the last call (for before/after claims)
    raw,    \* the table as first loaded / first passed in
    err,    \* "none", or the name of the exception that ended the run
    res     \* the feature-engineering call made: its name and arguments, and
            \* the tuple (X, y, scaler) prepare_model_data returned

vars == <<pc, df, prev, raw, err, res>>

(***************************************************************************)
(* Bounds of the model.                                                    *)
(***************************************************************************)
MaxNameLen == 3      \* longest column label drawn for standardize_columns
MaxRows == 3         \* most rows of a table drawn for the pipeline
MaxDupRows == 4      \* most rows of a table drawn for remove_duplicates
MaxDerivedRows == 2  \* most rows of a table drawn for add_derived_features
MaxFeatRows == 3     \* most rows of a table drawn for the feature functions
E2ERows == 10        \* rows of the end-to-end scenario's raw table
E2EDups == 2         \* rows of it that repeat an earlier row exactly

(***************************************************************************)
(* Cells.                                                                  *)
(***************************************************************************)
Num(n) == [k |-> "num", n |-> n, s |-> ""]
Null == [k |-> "null", n |-> 0, s |-> ""]
Str(s) == [k |-> "str", n |-> 0, s |-> s]
Date(n) == [k |-> "date", n |-> n, s |-> ""]        \* n = yyyymmdd, midnight
Period(n) == [k |-> "period", n |-> n, s |-> ""]    \* n = yyyymm

IsNull(v) == v.k = "null"
IsNum(v) == v.k = "num"

NoTable == [cols |-> <<>>, dtypes |-> <<>>, rows |-> <<>>]
NoResult ==
    [fn |-> "none", target |-> <<>>, features |-> <<>>, scale |-> FALSE,
     X |-> NoTable, y |-> <<>>, scaler |-> "unset"]

NumericDtypes == {"int32", "int64", "float64"}

(***************************************************************************)
(* Generic sequence helpers.                                               *)
(***************************************************************************)
Range(f) == {f[i] : i \in DOMAIN f}

RECURSIVE SelectIdx(_, _, _)
\* the indices i of 1..n, ascending, for which keep[i]
SelectIdx(keep, i, n) ==
    IF i > n THEN <<>>
    ELSE (IF keep[i] THEN <<i>> ELSE <<>>) \o SelectIdx(keep, i + 1, n)

Pick(s, idx) == [j \in 1..Len(idx) |-> s[idx[j]]]

HasCol(t, name) == \E i \in 1..Len(t.cols) : t.cols[i] = name
\* position of the (first) column labelled name
ColIdx(t, name) == CHOOSE i \in 1..Len(t.cols) :
                      /\ t.cols[i] = name
                      /\ \A j \in 1..(i - 1) : t.cols[j] # name
Column(t, name) == [r \in 1..Len(t.rows) |-> t.rows[r][ColIdx(t, name)]]
DtypeOf(t, name) == t.dtypes[ColIdx(t, name)]

\* df[name] = values: replaces the column when the label exists, else appends it
SetCol(t, name, dtype, values) ==
    IF HasCol(t, name)
    THEN [t EXCEPT !.dtypes[ColIdx(t, name)] = dtype,
                   !.rows = [r \in 1..Len(t.rows) |->
                               [t.rows[r] EXCEPT ![ColIdx(t, name)] = values[r]]]]
    ELSE [cols |-> Append(t.cols, name),
          dtypes |-> Append(t.dtypes, dtype),
          rows |-> [r \in 1..Len(t.rows) |-> Append(t.rows[r], values[r])]]

(***************************************************************************)
(* Strings: str.strip, str.lower, str.replace (regex=False).               *)
(***************************************************************************)
Whitespace == {" ", "\t", "\n"}
UpperCase == <<"A", "B", "C", "D", "E", "F", "G", "H", "I", "J", "K", "L", "M",
               "N", "O", "P", "Q", "R", "S", "T", "U", "V", "W", "X", "Y", "Z">>
LowerCase == <<"a", "b", "c", "d", "e", "f", "g", "h", "i", "j", "k", "l", "m",
               "n", "o", "p", "q", "r", "s", "t", "u", "v", "w", "x", "y", "z">>

RECURSIVE LStrip(_)
LStrip(s) == IF Len(s) > 0 /\ Head(s) \in Whitespace THEN LStrip(Tail(s)) ELSE s

RECURSIVE RStrip(_)
RStrip(s) ==
    IF Len(s) > 0 /\ s[Len(s)] \in Whitespace
    THEN RStrip(SubSeq(s, 1, Len(s) - 1))
    ELSE s

str_strip(s) == RStrip(LStrip(s))

lower_char(c) ==
    IF \E i \in 1..26 : UpperCase[i] = c
    THEN LowerCase[CHOOSE i \in 1..26 : UpperCase[i] = c]
    ELSE c

str_lower(s) == [i \in 1..Len(s) |-> lower_char(s[i])]

RECURSIVE str_replace(_, _, _)
\* every occurrence of the character old replaced by the string new
str_replace(s, old, new) ==
    IF Len(s) = 0 THEN <<>>
    ELSE (IF Head(s) = old THEN new ELSE <<Head(s)>>)
         \o str_replace(Tail(s), old, new)

\* the chain without .str.lower(): labels keep their capitals
standardize_name_noLower(s) ==
    str_replace(
      str_replace(
        str_replace(
          str_replace(str_strip(s), " ", <<"_">>),
          "(", <<>>),
        ")", <<>>),
      ".", <<"_">>)

\* data_cleaning.py:20-28 applied to one label: strip, lower, ' ' -> '_',
\* delete '(' and ')', '.' -> '_', in that order
standardize_name(s) ==
    str_replace(
      str_replace(
        str_replace(
          str_replace(str_lower(str_strip(s)), " ", <<"_">>),
          "(", <<>>),
        ")", <<>>),
      ".", <<"_">>)

standardize_columns(t) ==
    [t EXCEPT !.cols = [i \in 1..Len(t.cols) |-> standardize_name(t.cols[i])]]

(***************************************************************************)
(* Column labels the code names (c_...) and raw CSV headers (h_...), as    *)
(* character sequences.                                                    *)
(***************************************************************************)
c_customer_email == <<"c", "u", "s", "t", "o", "m", "e", "r", "_", "e", "m", "a", "i", "l">>
c_customer_password ==
    <<"c", "u", "s", "t", "o", "m", "e", "r", "_", "p", "a", "s", "s", "w", "o", "r", "d">>
c_product_image == <<"p", "r", "o", "d", "u", "c", "t", "_", "i", "m", "a", "g", "e">>
c_customer_fname == <<"c", "u", "s", "t", "o", "m", "e", "r", "_", "f", "n", "a", "m", "e">>
c_customer_lname == <<"c", "u", "s", "t", "o", "m", "e", "r", "_", "l", "n", "a", "m", "e">>
c_order_date_dateorders ==
    <<"o", "r", "d", "e", "r", "_", "d", "a", "t", "e", "_", "d", "a", "t", "e", "o", "r", "d", "e", "r", "s">>
c_shipping_date_dateorders ==
    <<"s", "h", "i", "p", "p", "i", "n", "g", "_", "d", "a", "t", "e", "_", "d", "a", "t", "e", "o", "r", "d", "e", "r", "s">>
c_days_for_shipping_real ==
    <<"d", "a", "y", "s", "_", "f", "o", "r", "_", "s", "h", "i", "p", "p", "i", "n", "g", "_", "r", "e", "a", "l">>
c_days_for_shipment_scheduled ==
    <<"d", "a", "y", "s", "_", "f", "o", "r", "_", "s", "h", "i", "p", "m", "e", "n", "t", "_", "s", "c", "h", "e", "d", "u", "l", "e", "d">>
c_shipping_delay_days ==
    <<"s", "h", "i", "p", "p", "i", "n", "g", "_", "d", "e", "l", "a", "y", "_", "d", "a", "y", "s">>
c_order_month == <<"o", "r", "d", "e", "r", "_", "m", "o", "n", "t", "h">>
c_order_year == <<"o", "r", "d", "e", "r", "_", "y", "e", "a", "r">>
c_order_day_of_week ==
    <<"o", "r", "d", "e", "r", "_", "d", "a", "y", "_", "o", "f", "_", "w", "e", "e", "k">>
c_order_profit_per_order ==
    <<"o", "r", "d", "e", "r", "_", "p", "r", "o", "f", "i", "t", "_", "p", "e", "r", "_", "o", "r", "d", "e", "r">>
c_sales == <<"s", "a", "l", "e", "s">>
c_profit_margin_pct ==
    <<"p", "r", "o", "f", "i", "t", "_", "m", "a", "r", "g", "i", "n", "_", "p", "c", "t">>
c_order_value_bucket ==
    <<"o", "r", "d", "e", "r", "_", "v", "a", "l", "u", "e", "_", "b", "u", "c", "k", "e", "t">>
c_order_item_discount ==
    <<"o", "r", "d", "e", "r", "_", "i", "t", "e", "m", "_", "d", "i", "s", "c", "o", "u", "n", "t">>
c_is_high_discount ==
    <<"i", "s", "_", "h", "i", "g", "h", "_", "d", "i", "s", "c", "o", "u", "n", "t">>
c_order_item_quantity ==
    <<"o", "r", "d", "e", "r", "_", "i", "t", "e", "m", "_", "q", "u", "a", "n", "t", "i", "t", "y">>
c_is_bulk_order == <<"i", "s", "_", "b", "u", "l", "k", "_", "o", "r", "d", "e", "r">>
c_is_weekend_order ==
    <<"i", "s", "_", "w", "e", "e", "k", "e", "n", "d", "_", "o", "r", "d", "e", "r">>
c_extreme_margin == <<"e", "x", "t", "r", "e", "m", "e", "_", "m", "a", "r", "g", "i", "n">>
c_fast_ship == <<"f", "a", "s", "t", "_", "s", "h", "i", "p">>
c_negative_profit ==
    <<"n", "e", "g", "a", "t", "i", "v", "e", "_", "p", "r", "o", "f", "i", "t">>
c_late_delivery_risk ==
    <<"l", "a", "t", "e", "_", "d", "e", "l", "i", "v", "e", "r", "y", "_", "r", "i", "s", "k">>

\* "Customer Email"
h_Customer_Email == <<"C", "u", "s", "t", "o", "m", "e", "r", " ", "E", "m", "a", "i", "l">>
\* " customer email "
h_customer_email_sp ==
    <<" ", "c", "u", "s", "t", "o", "m", "e", "r", " ", "e", "m", "a", "i", "l", " ">>
\* "CUSTOMER.EMAIL"
h_CUSTOMER_EMAIL_dot ==
    <<"C", "U", "S", "T", "O", "M", "E", "R", ".", "E", "M", "A", "I", "L">>
\* "Customer Password"
h_Customer_Password ==
    <<"C", "u", "s", "t", "o", "m", "e", "r", " ", "P", "a", "s", "s", "w", "o", "r", "d">>
\* "Product Image"
h_Product_Image == <<"P", "r", "o", "d", "u", "c", "t", " ", "I", "m", "a", "g", "e">>
\* "Customer Fname"
h_Customer_Fname == <<"C", "u", "s", "t", "o", "m", "e", "r", " ", "F", "n", "a", "m", "e">>
\* "Customer Lname"
h_Customer_Lname == <<"C", "u", "s", "t", "o", "m", "e", "r", " ", "L", "n", "a", "m", "e">>
\* "order date (DateOrders)"
h_order_date ==
    <<"o", "r", "d", "e", "r", " ", "d", "a", "t", "e", " ", "(", "D", "a", "t", "e", "O", "r", "d", "e", "r", "s", ")">>
\* "shipping date (DateOrders)"
h_shipping_date ==
    <<"s", "h", "i", "p", "p", "i", "n", "g", " ", "d", "a", "t", "e", " ", "(", "D", "a", "t", "e", "O", "r", "d", "e", "r", "s", ")">>
\* "Sales"
h_Sales == <<"S", "a", "l", "e", "s">>
\* "Order Profit Per Order"
h_Order_Profit ==
    <<"O", "r", "d", "e", "r", " ", "P", "r", "o", "f", "i", "t", " ", "P", "e", "r", " ", "O", "r", "d", "e", "r">>
\* "Days for shipping (real)"
h_Days_real ==
    <<"D", "a", "y", "s", " ", "f", "o", "r", " ", "s", "h", "i", "p", "p", "i", "n", "g", " ", "(", "r", "e", "a", "l", ")">>
\* "Days for shipment (scheduled)"
h_Days_scheduled ==
    <<"D", "a", "y", "s", " ", "f", "o", "r", " ", "s", "h", "i", "p", "m", "e", "n", "t", " ", "(", "s", "c", "h", "e", "d", "u", "l", "e", "d", ")">>
\* "Late_delivery_risk"
h_Late_risk ==
    <<"L", "a", "t", "e", "_", "d", "e", "l", "i", "v", "e", "r", "y", "_", "r", "i", "s", "k">>

(***************************************************************************)
(* Specification SpecStd: standardize_columns applied twice to a           *)
(* one-column table whose label is any string of at most MaxNameLen        *)
(* characters over NameAlphabet.                                           *)
(***************************************************************************)
NameAlphabet == {"a", "B", " ", "\t", "(", ")", ".", "_"}
Names == UNION {[1..n -> NameAlphabet] : n \in 0..MaxNameLen}

InitStd ==
    /\ pc = "std_first"
    /\ \E name \in Names :
          df = [cols |-> <<name>>, dtypes |-> <<"object">>, rows |-> <<>>]
    /\ prev = NoTable
    /\ raw = df
    /\ err = "none"
    /\ res = NoResult

StdFirst ==
    /\ pc = "std_first"
    /\ df' = standardize_columns(df)
    /\ prev' = df
    /\ pc' = "std_second"
    /\ UNCHANGED <<raw, err, res>>

StdSecond ==
    /\ pc = "std_second"
    /\ df' = standardize_columns(df)
    /\ prev' = df
    /\ pc' = "std_done"
    /\ UNCHANGED <<raw, err, res>>

NextStd == StdFirst \/ StdSecond

SpecStd == InitStd /\ [][NextStd]_vars

\* C3: standardize_columns is idempotent: the labels after the second
\* application equal the labels after the first.
C3_Idempotent == pc = "std_done" => df.cols = prev.cols

(***************************************************************************)
(* data_cleaning.py: the cleaning functions.                               *)
(***************************************************************************)
\* pd.read_csv's type inference for one column of text cells
infer_dtype(cells) ==
    IF Len(cells) = 0 THEN "object"
    ELSE IF \E i \in 1..Len(cells) : cells[i].k = "str" THEN "object"
    ELSE IF \E i \in 1..Len(cells) : cells[i].k = "null" THEN "float64"
    ELSE "int64"

\* the table read from a CSV with the given header (a sequence of
\* <<label, field>>) and records (each a function from field to cell)
read_csv(header, records) ==
    [cols |-> [i \in 1..Len(header) |-> header[i][1]],
     dtypes |-> [i \in 1..Len(header) |->
                   infer_dtype([r \in 1..Len(records) |-> records[r][header[i][2]]])],
     rows |-> [r \in 1..Len(records) |->
                 [i \in 1..Len(header) |-> records[r][header[i][2]]]]]

\* the list without its last entry
cols_to_drop_noLname ==
    {c_customer_email, c_customer_password, c_product_image, c_customer_fname}

\* data_cleaning.py:34-37
cols_to_drop ==
    {c_customer_email, c_customer_password, c_product_image, c_customer_fname,
     c_customer_lname}

drop_redundant_columns(t) ==
    LET keep == [i \in 1..Len(t.cols) |-> t.cols[i] \notin cols_to_drop]
        idx == SelectIdx(keep, 1, Len(t.cols))
    IN  [cols |-> Pick(t.cols, idx),
         dtypes |-> Pick(t.dtypes, idx),
         rows |-> [r \in 1..Len(t.rows) |-> Pick(t.rows[r], idx)]]

\* The date texts of the tables drawn, with the day each parses to (0: the
\* text is no date).  Two spellings of one day parse to the same value.
DateTexts == <<"1/7/2017", "01/07/2017", "1/8/2017", "2/6/2017", "bad date", "unknown">>
DateValues == <<20170107, 20170107, 20170108, 20170206, 0, 0>>

\* pd.to_datetime(..., errors='coerce') on one cell of text
to_datetime(v) ==
    CASE v.k = "null" -> Null
      [] v.k = "date" -> v
      [] v.k = "str" ->
           IF \E i \in 1..Len(DateTexts) : DateTexts[i] = v.s /\ DateValues[i] # 0
           THEN Date(DateValues[CHOOSE i \in 1..Len(DateTexts) : DateTexts[i] = v.s])
           ELSE Null

date_cols == <<c_order_date_dateorders, c_shipping_date_dateorders>>

convert_one(t, col) ==
    IF HasCol(t, col)
    THEN SetCol(t, col, "datetime64[ns]",
                [r \in 1..Len(t.rows) |-> to_datetime(t.rows[r][ColIdx(t, col)])])
    ELSE t

convert_date_columns(t) == convert_one(convert_one(t, date_cols[1]), date_cols[2])

\* The report (null counts and percentages; with no rows the percentages are
\* a Series divided by 0, which is NaN and no error) is printed, and the
\* table returned as it came.
handle_missing_values(t) == t

\* no row dropped
drop_duplicates_keepAll(t) == t

\* drop_duplicates(keep='last'): the last of each group of equal rows
drop_duplicates_keepLast(t) ==
    LET n == Len(t.rows)
        keep == [i \in 1..n |-> \A j \in (i + 1)..n : t.rows[j] # t.rows[i]]
    IN  [t EXCEPT !.rows = Pick(t.rows, SelectIdx(keep, 1, n))]

\* DataFrame.drop_duplicates(): the first of each group of equal rows, in
\* order; missing cells count as equal
drop_duplicates(t) ==
    LET n == Len(t.rows)
        keep == [i \in 1..n |-> \A j \in 1..(i - 1) : t.rows[j] # t.rows[i]]
    IN  [t EXCEPT !.rows = Pick(t.rows, SelectIdx(keep, 1, n))]

\* removed/initial_rows in the report line divides by the row count
remove_duplicates_raises(t) == Len(t.rows) = 0

remove_duplicates(t) == drop_duplicates(t)

(***************************************************************************)
(* add_derived_features.                                                   *)
(***************************************************************************)
\* scheduled - actual
sub_cells_reversed(a, b) == IF IsNum(a) /\ IsNum(b) THEN Num(b.n - a.n) ELSE Null

\* Series - Series on numeric cells; a missing operand gives a missing result
sub_cells(a, b) == IF IsNum(a) /\ IsNum(b) THEN Num(a.n - b.n) ELSE Null

\* a / b rounded down
round_half_even_floor(a, b) ==
    LET num == IF b < 0 THEN 0 - a ELSE a
        den == IF b < 0 THEN 0 - b ELSE b
    IN  num \div den

\* a / b rounded to the nearest integer, ties to the even one (numpy's
\* round), b # 0, in exact arithmetic
round_half_even(a, b) ==
    LET num == IF b < 0 THEN 0 - a ELSE a
        den == IF b < 0 THEN 0 - b ELSE b
        q == num \div den
        r == num % den
    IN  IF 2 * r < den THEN q
        ELSE IF 2 * r > den THEN q + 1
        ELSE IF q % 2 = 0 THEN q ELSE q + 1

\* np.where(sales != 0, (profit / sales * 100).round(2), 0) on one row.  The
\* percentage is held in hundredths: Num(3333) is 33.33.  NaN != 0 is true, so
\* a missing sales (or profit) gives a missing percentage.
profit_margin(profit, sales) ==
    IF IsNum(sales) /\ sales.n = 0 THEN Num(0)
    ELSE IF IsNum(sales) /\ IsNum(profit)
         THEN Num(round_half_even(profit.n * 10000, sales.n))
         ELSE Null

year_of(d) == d \div 10000
month_of(d) == (d \div 100) % 100
day_of(d) == d % 100

DayNames == <<"Sunday", "Monday", "Tuesday", "Wednesday", "Thursday", "Friday",
              "Saturday">>
MonthOffsets == <<0, 3, 2, 5, 0, 3, 5, 1, 4, 6, 2, 4>>

\* Series.dt.day_name() on one day of the Gregorian calendar
day_name(d) ==
    LET y == IF month_of(d) < 3 THEN year_of(d) - 1 ELSE year_of(d)
        w == (y + y \div 4 - y \div 100 + y \div 400
                + MonthOffsets[month_of(d)] + day_of(d)) % 7
    IN  DayNames[w + 1]

has_delay_inputs(t) ==
    HasCol(t, c_days_for_shipping_real) /\ HasCol(t, c_days_for_shipment_scheduled)

has_margin_inputs(t) == HasCol(t, c_order_profit_per_order) /\ HasCol(t, c_sales)

\* data_cleaning.py:86-87
add_shipping_delay(t) ==
    IF has_delay_inputs(t)
    THEN LET a == Column(t, c_days_for_shipping_real)
             b == Column(t, c_days_for_shipment_scheduled)
             vals == [r \in 1..Len(t.rows) |-> sub_cells(a[r], b[r])]
         IN  SetCol(t, c_shipping_delay_days,
                    IF \E r \in 1..Len(vals) : IsNull(vals[r])
                    THEN "float64" ELSE "int64",
                    vals)
    ELSE t

\* data_cleaning.py:90-93
add_order_dates(t) ==
    IF HasCol(t, c_order_date_dateorders)
    THEN LET d == Column(t, c_order_date_dateorders)
             n == Len(t.rows)
             months == [r \in 1..n |->
                          IF IsNull(d[r]) THEN Null ELSE Period(d[r].n \div 100)]
             years == [r \in 1..n |->
                         IF IsNull(d[r]) THEN Null ELSE Num(year_of(d[r].n))]
             days == [r \in 1..n |->
                        IF IsNull(d[r]) THEN Null ELSE Str(day_name(d[r].n))]
             t1 == SetCol(t, c_order_month, "period[M]", months)
             t2 == SetCol(t1, c_order_year,
                          IF \E r \in 1..n : IsNull(d[r]) THEN "float64" ELSE "int32",
                          years)
         IN  SetCol(t2, c_order_day_of_week, "object", days)
    ELSE t

\* data_cleaning.py:96-101
add_profit_margin(t) ==
    IF has_margin_inputs(t)
    THEN LET p == Column(t, c_order_profit_per_order)
             s == Column(t, c_sales)
         IN  SetCol(t, c_profit_margin_pct, "float64",
                    [r \in 1..Len(t.rows) |-> profit_margin(p[r], s[r])])
    ELSE t

\* The library's error, if the call ends in one ("none": it returns).
\* Arithmetic on a text column is a TypeError; .dt on a column that is not
\* datetime64 is an AttributeError.
add_derived_features_error(t) ==
    IF has_delay_inputs(t)
       /\ ~ ({DtypeOf(t, c_days_for_shipping_real),
              DtypeOf(t, c_days_for_shipment_scheduled)} \subseteq NumericDtypes)
    THEN "TypeError"
    ELSE IF HasCol(t, c_order_date_dateorders)
            /\ DtypeOf(t, c_order_date_dateorders) # "datetime64[ns]"
    THEN "AttributeError"
    ELSE IF has_margin_inputs(t)
            /\ ~ ({DtypeOf(t, c_order_profit_per_order), DtypeOf(t, c_sales)}
                    \subseteq NumericDtypes)
    THEN "TypeError"
    ELSE "none"

add_derived_features(t) == add_profit_margin(add_order_dates(add_shipping_delay(t)))

(***************************************************************************)
(* Specification Spec: run_full_cleaning_pipeline on the CSV files of      *)
(* PipelineInputs.  A file is a header (<<label, field>> pairs) and at     *)
(* most MaxRows records.                                                   *)
(***************************************************************************)
Rec(pii, odate, sdate, sales, profit, real, sched) ==
    [pii |-> pii, odate |-> odate, sdate |-> sdate, sales |-> sales,
     profit |-> profit, real |-> real, sched |-> sched]

R1 == Rec(Str("ann"), Str("1/7/2017"), Str("1/8/2017"), Num(100), Num(50), Num(3), Num(4))
\* R1 with another customer
R2 == Rec(Str("bob"), Str("1/7/2017"), Str("1/8/2017"), Num(100), Num(50), Num(3), Num(4))
\* R1 with the order date spelled differently
R3 == Rec(Str("ann"), Str("01/07/2017"), Str("1/8/2017"), Num(100), Num(50), Num(3), Num(4))
R4 == Rec(Str("ann"), Str("bad date"), Null, Num(0), Num(50), Num(2), Null)
\* R4 with another customer and another unparseable date
R5 == Rec(Str("bob"), Str("unknown"), Null, Num(0), Num(50), Num(2), Null)
R6 == Rec(Str("ann"), Str("2/6/2017"), Str("bad date"), Num(3), Num(1), Null, Num(1))

Records == {R1, R2, R3, R4, R5, R6}

HdrFull ==
    << <<h_Customer_Email, "pii">>, <<h_Customer_Lname, "pii">>,
       <<h_order_date, "odate">>, <<h_shipping_date, "sdate">>,
       <<h_Sales, "sales">>, <<h_Order_Profit, "profit">>,
       <<h_Days_real, "real">>, <<h_Days_scheduled, "sched">> >>
\* two headers that standardize to the same label customer_email
HdrSpelled ==
    << <<h_customer_email_sp, "pii">>, <<h_Sales, "sales">>,
       <<h_CUSTOMER_EMAIL_dot, "pii">>, <<h_Order_Profit, "profit">> >>
HdrAllPII ==
    << <<h_Customer_Password, "pii">>, <<h_Product_Image, "pii">>,
       <<h_Customer_Fname, "pii">>, <<h_Sales, "sales">>,
       <<h_Customer_Email, "pii">>, <<h_Customer_Lname, "pii">> >>
HdrNoDates ==
    << <<h_Customer_Email, "pii">>, <<h_Sales, "sales">>,
       <<h_Order_Profit, "profit">>, <<h_Days_real, "real">>,
       <<h_Days_scheduled, "sched">> >>
HdrNoSales ==
    << <<h_Customer_Lname, "pii">>, <<h_order_date, "odate">>,
       <<h_Order_Profit, "profit">>, <<h_Days_real, "real">> >>
HdrBare == << <<h_Late_risk, "real">> >>

Headers == {HdrFull, HdrSpelled, HdrAllPII, HdrNoDates, HdrNoSales, HdrBare}

PipelineInputs ==
    {read_csv(h, rs) : h \in Headers,
                       rs \in UNION {[1..n -> Records] : n \in 0..MaxRows}}

InitPipeline ==
    /\ pc = "load"
    /\ df = NoTable
    /\ prev = NoTable
    /\ raw = NoTable
    /\ err = "none"
    /\ res = NoResult

Fail(e) ==
    /\ pc' = "error"
    /\ err' = e
    /\ UNCHANGED <<df, prev, raw, res>>

Return(t, next) ==
    /\ df' = t
    /\ prev' = df
    /\ pc' = next
    /\ UNCHANGED <<raw, err, res>>

\* df = load_raw_data(filepath): the read fails, or gives one of the inputs
LoadRawData(inputs) ==
    /\ pc = "load"
    /\ \E outcome \in {"read", "FileNotFoundError", "UnicodeDecodeError"},
          t \in inputs :
          IF outcome = "read"
          THEN /\ df' = t
               /\ raw' = t
               /\ pc' = "standardize"
               /\ UNCHANGED <<prev, err, res>>
          ELSE Fail(outcome)

StandardizeColumns ==
    /\ pc = "standardize"
    /\ Return(standardize_columns(df), "drop")

DropRedundantColumns ==
    /\ pc = "drop"
    /\ Return(drop_redundant_columns(df), "convert")

ConvertDateColumns ==
    /\ pc = "convert"
    /\ Return(convert_date_columns(df), "missing")

HandleMissingValues ==
    /\ pc = "missing"
    /\ Return(handle_missing_values(df), "dedup")

RemoveDuplicates ==
    /\ pc = "dedup"
    /\ IF remove_duplicates_raises(df)
       THEN Fail("ZeroDivisionError")
       ELSE Return(remove_duplicates(df), "derive")

AddDerivedFeatures ==
    /\ pc = "derive"
    /\ IF add_derived_features_error(df) # "none"
       THEN Fail(add_derived_features_error(df))
       ELSE Return(add_derived_features(df), "done")

Pipeline ==
    \/ StandardizeColumns
    \/ DropRedundantColumns
    \/ ConvertDateColumns
    \/ HandleMissingValues
    \/ RemoveDuplicates
    \/ AddDerivedFeatures

Next == LoadRawData(PipelineInputs) \/ Pipeline

Spec == InitPipeline /\ [][Next]_vars

NoPII(t) == \A i \in 1..Len(t.cols) : t.cols[i] \notin
               {c_customer_email, c_customer_password, c_product_image,
                c_customer_fname, c_customer_lname}

\* no column is a PII column under another casing either
NoPIIAnyCase(t) == \A i \in 1..Len(t.cols) : str_lower(t.cols[i]) \notin
                      {c_customer_email, c_customer_password, c_product_image,
                       c_customer_fname, c_customer_lname}

\* C1: from the end of drop_redundant_columns to the returned table, none of
\* the five PII columns is present, however the raw header spelled them
\* (none survives under its raw casing either).
C1_NoPIIAfterDrop ==
    pc \notin {"load", "standardize", "drop"} => NoPII(df) /\ NoPIIAnyCase(df)

\* C1's case: the pipeline returned a table whose raw header spelled a PII
\* column in capitals with a period, and another with surrounding spaces.
C1_Witness ==
    /\ pc = "done"
    /\ h_CUSTOMER_EMAIL_dot \in Range(raw.cols)
    /\ h_customer_email_sp \in Range(raw.cols)
    /\ Len(df.rows) > 0

\* C5: load_raw_data is the only step that can end in an error: a run that
\* ended in an error ended before any table was loaded.
C5_OnlyLoadFails == pc = "error" => raw = NoTable

\* the day a cell of date text stands for (0: missing or no date)
DayOfCell(v) ==
    IF v.k = "str" /\ \E i \in 1..Len(DateTexts) : DateTexts[i] = v.s
    THEN DateValues[CHOOSE i \in 1..Len(DateTexts) : DateTexts[i] = v.s]
    ELSE 0

\* the raw rows projected onto the surviving columns: the cells of the
\* columns whose standardized label is no PII label, a date cell standing
\* for its day
Projected(t) ==
    LET labels == [i \in 1..Len(t.cols) |-> standardize_name(t.cols[i])]
        surviving == {i \in 1..Len(t.cols) :
                        labels[i] \notin {c_customer_email, c_customer_password,
                                          c_product_image, c_customer_fname,
                                          c_customer_lname}}
        dates == {i \in surviving :
                    labels[i] \in {c_order_date_dateorders, c_shipping_date_dateorders}}
    IN  {[i \in surviving |->
            IF i \in dates THEN Num(DayOfCell(t.rows[r][i])) ELSE t.rows[r][i]] :
         r \in 1..Len(t.rows)}

\* C10: the returned row count is the number of distinct raw rows projected
\* onto the surviving, date-parsed columns, and add_derived_features neither
\* merges nor splits rows.
C10_DedupOverReducedTable ==
    pc = "done" =>
        /\ Len(df.rows) = Cardinality(Projected(raw))
        /\ Len(df.rows) = Len(prev.rows)
        /\ Len(df.rows) <= Cardinality(Range(raw.rows))

\* C10's case: raw rows that differ only in dropped or unparseable cells were
\* collapsed, leaving fewer rows than the raw table has distinct rows.
C10_Witness ==
    /\ pc = "done"
    /\ Len(df.rows) < Cardinality(Range(raw.rows))
    /\ HasCol(df, c_order_date_dateorders)

(***************************************************************************)
(* Specification SpecDedup: remove_duplicates called on a two-column table *)
(* of at most MaxDupRows rows.                                             *)
(***************************************************************************)
DupRows == {<<a, b>> : a \in {Num(1), Null}, b \in {Num(0), Num(1), Null}}

DupInputs ==
    {[cols |-> <<c_sales, c_late_delivery_risk>>,
      dtypes |-> <<"float64", "float64">>,
      rows |-> rs] : rs \in UNION {[1..n -> DupRows] : n \in 0..MaxDupRows}}

InitDedup ==
    /\ pc = "call"
    /\ df \in DupInputs
    /\ prev = NoTable
    /\ raw = df
    /\ err = "none"
    /\ res = NoResult

CallRemoveDuplicates ==
    /\ pc = "call"
    /\ IF remove_duplicates_raises(df)
       THEN Fail("ZeroDivisionError")
       ELSE Return(remove_duplicates(df), "returned")

NextDedup == CallRemoveDuplicates

SpecDedup == InitDedup /\ [][NextDedup]_vars

FirstIdx(rows, r) == CHOOSE i \in 1..Len(rows) :
                        /\ rows[i] = r
                        /\ \A j \in 1..(i - 1) : rows[j] # r

\* C2: the output of remove_duplicates has no two equal rows, has at most as
\* many rows as the input, holds every distinct input row exactly once, in the
\* order of the rows' first occurrences, and has the input's columns.
C2_RemoveDuplicates ==
    pc = "returned" =>
        /\ \A i, j \in 1..Len(df.rows) : i # j => df.rows[i] # df.rows[j]
        /\ Len(df.rows) <= Len(prev.rows)
        /\ Range(df.rows) = Range(prev.rows)
        /\ \A r \in Range(prev.rows) :
              Cardinality({i \in 1..Len(df.rows) : df.rows[i] = r}) = 1
        /\ \A i, j \in 1..Len(df.rows) :
              i < j => FirstIdx(prev.rows, df.rows[i]) < FirstIdx(prev.rows, df.rows[j])
        /\ df.cols = prev.cols
        /\ df.dtypes = prev.dtypes

\* C2's case: an input with a repeated row between two other rows was reduced.
C2_Witness ==
    /\ pc = "returned"
    /\ Len(prev.rows) = 4
    /\ Len(df.rows) = 3
    /\ prev.rows[1] = prev.rows[3]
    /\ \E i \in 1..4 : prev.rows[i][1] = Null

(***************************************************************************)
(* Specification SpecE2E: run_full_cleaning_pipeline on the scenario's     *)
(* files: E2ERows records with valid dates, of which E2EDups repeat an     *)
(* earlier record exactly and one has sales = 0 and profit = 50.           *)
(***************************************************************************)
ZeroSalesRec ==
    Rec(Str("ann"), Str("1/7/2017"), Str("1/8/2017"), Num(0), Num(50), Num(3), Num(4))

\* pairwise distinct records; the second differs from the first only in the
\* customer, the third only in the spelling of the order date
E2EUniverse ==
    << Rec(Str("ann"), Str("1/7/2017"), Str("1/8/2017"), Num(100), Num(50), Num(3), Num(4)),
       Rec(Str("bob"), Str("1/7/2017"), Str("1/8/2017"), Num(100), Num(50), Num(3), Num(4)),
       Rec(Str("ann"), Str("01/07/2017"), Str("1/8/2017"), Num(100), Num(50), Num(3), Num(4)),
       Rec(Str("ann"), Str("1/8/2017"), Str("1/8/2017"), Num(100), Num(50), Num(3), Num(4)),
       Rec(Str("ann"), Str("2/6/2017"), Str("1/8/2017"), Num(100), Num(50), Num(3), Num(4)),
       Rec(Str("ann"), Str("1/7/2017"), Str("1/8/2017"), Num(3), Num(1), Num(3), Num(4)),
       Rec(Str("ann"), Str("1/7/2017"), Str("1/8/2017"), Num(3), Num(1), Num(2), Num(4)),
       Rec(Str("ann"), Str("1/7/2017"), Str("1/8/2017"), Num(3), Num(1), Num(2), Num(5)),
       Rec(Str("bob"), Str("1/7/2017"), Str("1/8/2017"), Num(3), Num(0 - 1), Num(2), Num(5)) >>

\* the distinct records: ZeroSalesRec and E2ERows - E2EDups - 1 of the universe
E2EDistinct ==
    {<<ZeroSalesRec>> \o Pick(E2EUniverse, SelectIdx([i \in 1..Len(E2EUniverse) |-> i \in S],
                                                      1, Len(E2EUniverse))) :
        S \in {S \in SUBSET (1..Len(E2EUniverse)) :
                 Cardinality(S) = E2ERows - E2EDups - 1}}

\* the repeats, appended: E2EDups records of the distinct ones other than
\* ZeroSalesRec (of which the scenario has one)
E2ERecords ==
    {d \o [k \in 1..E2EDups |-> d[pick[k]]] :
        d \in E2EDistinct,
        pick \in {p \in [1..E2EDups -> 2..(E2ERows - E2EDups)] :
                    \A k \in 1..(E2EDups - 1) : p[k] <= p[k + 1]}}

\* every field of the records, the customer under two spellings of one label
HdrFullSpelled ==
    << <<h_customer_email_sp, "pii">>, <<h_order_date, "odate">>,
       <<h_shipping_date, "sdate">>, <<h_Sales, "sales">>,
       <<h_Order_Profit, "profit">>, <<h_Days_real, "real">>,
       <<h_Days_scheduled, "sched">>, <<h_CUSTOMER_EMAIL_dot, "pii">> >>

E2EInputs == {read_csv(h, rs) : h \in {HdrFull, HdrFullSpelled}, rs \in E2ERecords}

NextE2E == LoadRawData(E2EInputs) \/ Pipeline

SpecE2E == InitPipeline /\ [][NextE2E]_vars

ZeroSalesRowsHaveZeroMargin(t) ==
    /\ HasCol(t, c_sales)
    /\ HasCol(t, c_profit_margin_pct)
    /\ \E r \in 1..Len(t.rows) : t.rows[r][ColIdx(t, c_sales)] = Num(0)
    /\ \A r \in 1..Len(t.rows) :
          t.rows[r][ColIdx(t, c_sales)] = Num(0)
             => t.rows[r][ColIdx(t, c_profit_margin_pct)] = Num(0)

\* C6 as stated: the scenario's run returns exactly E2ERows - E2EDups (8)
\* rows, 0 in profit_margin_pct of the zero-sales row, and no PII column.
C6_Original ==
    pc = "done" =>
        /\ Len(df.rows) = E2ERows - E2EDups
        /\ ZeroSalesRowsHaveZeroMargin(df)
        /\ NoPII(df)

\* C6 amended: the scenario's run completes and returns at most
\* E2ERows - E2EDups (8) rows: as many as the raw rows are distinct once the
\* PII columns are dropped and the dates parsed; the zero-sales row has 0 in
\* profit_margin_pct and no PII column is present.
C6_EndToEnd ==
    /\ pc = "error" => raw = NoTable
    /\ pc = "done" =>
        /\ Len(df.rows) <= E2ERows - E2EDups
        /\ Len(df.rows) = Cardinality(Projected(raw))
        /\ Cardinality(Range(raw.rows)) = E2ERows - E2EDups
        /\ Len(raw.rows) = E2ERows
        /\ ZeroSalesRowsHaveZeroMargin(df)
        /\ NoPII(df)

\* C6's case: a run that returned exactly the distinct raw rows, PII gone.
C6_Witness ==
    /\ pc = "done"
    /\ Len(raw.rows) = E2ERows
    /\ Len(df.rows) = E2ERows - E2EDups
    /\ ~ NoPII(standardize_columns(raw))
    /\ HasCol(df, c_order_day_of_week)

(***************************************************************************)
(* Specification SpecDerived: add_derived_features called on a table of 1  *)
(* to MaxDerivedRows rows, with some of its prerequisite columns absent, *)
(* or with a column that already bears a derived column's label.           *)
(***************************************************************************)
DRec(profit, sales, v) ==
    [profit |-> profit, sales |-> sales,
     real |-> <<Num(3), Null, Num(2)>>[v],
     sched |-> <<Num(4), Num(1), Null>>[v],
     odate |-> <<Str("1/7/2017"), Str("bad date"), Str("2/6/2017")>>[v],
     other |-> <<Num(1), Num(7), Null>>[v]]

DerivedRecords ==
    {DRec(p, s, 1) : p \in {Num(0 - 1), Num(0), Num(1), Num(3), Num(50), Null},
                     s \in {Num(0 - 3), Num(0), Num(32), Null}}
    \cup {DRec(Num(50), Num(0), v) : v \in 2..3}
    \cup {DRec(Num(1), Num(0 - 3), v) : v \in 2..3}

DHdrAll ==
    << <<c_days_for_shipping_real, "real">>, <<c_days_for_shipment_scheduled, "sched">>,
       <<c_order_date_dateorders, "odate">>, <<c_order_profit_per_order, "profit">>,
       <<c_sales, "sales">>, <<c_late_delivery_risk, "other">> >>
DHdrNoSchedNoSales ==
    << <<c_days_for_shipping_real, "real">>, <<c_order_date_dateorders, "odate">>,
       <<c_order_profit_per_order, "profit">> >>
DHdrNoRealNoProfit ==
    << <<c_days_for_shipment_scheduled, "sched">>, <<c_sales, "sales">>,
       <<c_late_delivery_risk, "other">> >>
\* columns labelled shipping_delay_days and profit_margin_pct are there already
DHdrPreexisting ==
    << <<c_shipping_delay_days, "other">>, <<c_days_for_shipping_real, "real">>,
       <<c_days_for_shipment_scheduled, "sched">>, <<c_profit_margin_pct, "other">>,
       <<c_order_profit_per_order, "profit">>, <<c_sales, "sales">> >>
DHdrPreexistingOnly ==
    << <<c_shipping_delay_days, "other">>, <<c_order_year, "real">>,
       <<c_sales, "sales">> >>
DHdrNone == << <<c_late_delivery_risk, "other">> >>
\* the sales column holds text
DHdrTextSales ==
    << <<c_sales, "odate">>, <<c_order_profit_per_order, "profit">> >>

DerivedHeaders ==
    {DHdrAll, DHdrNoSchedNoSales, DHdrNoRealNoProfit, DHdrPreexisting,
     DHdrPreexistingOnly, DHdrNone, DHdrTextSales}

DerivedTables ==
    {read_csv(h, rs) : h \in DerivedHeaders,
                       rs \in UNION {[1..n -> DerivedRecords] : n \in 1..MaxDerivedRows}}

\* the tables as read, and the same tables after convert_date_columns
DerivedInputs == DerivedTables \cup {convert_date_columns(t) : t \in DerivedTables}

InitDerived ==
    /\ pc = "call"
    /\ df \in DerivedInputs
    /\ prev = NoTable
    /\ raw = df
    /\ err = "none"
    /\ res = NoResult

CallAddDerivedFeatures ==
    /\ pc = "call"
    /\ IF add_derived_features_error(df) # "none"
       THEN Fail(add_derived_features_error(df))
       ELSE Return(add_derived_features(df), "returned")

NextDerived == CallAddDerivedFeatures

SpecDerived == InitDerived /\ [][NextDerived]_vars

Abs(x) == IF x < 0 THEN 0 - x ELSE x

\* m hundredths is p / s * 100 rounded to 2 decimals: the nearest hundredth,
\* the even one of two equally near
IsRoundedMargin(m, p, s) ==
    /\ 2 * Abs(m * s - 10000 * p) <= Abs(s)
    /\ 2 * Abs(m * s - 10000 * p) = Abs(s) => m % 2 = 0

Cell(t, r, name) == t.rows[r][ColIdx(t, name)]

MarginRowsRight ==
    \A r \in 1..Len(df.rows) :
        LET s == Cell(prev, r, c_sales)
            p == Cell(prev, r, c_order_profit_per_order)
            m == Cell(df, r, c_profit_margin_pct)
        IN  /\ s = Num(0) => m = Num(0)
            /\ IsNum(s) /\ s.n # 0 /\ IsNum(p) =>
                  IsNum(m) /\ IsRoundedMargin(m.n, p.n, s.n)
            /\ IsNull(s) \/ (s # Num(0) /\ IsNull(p)) => IsNull(m)

\* C4 as stated: profit_margin_pct is 0 if and only if sales == 0, and is
\* round(profit / sales * 100, 2) where sales != 0.
C4_Original ==
    pc = "returned" /\ has_margin_inputs(prev) =>
        /\ MarginRowsRight
        /\ \A r \in 1..Len(df.rows) :
              Cell(df, r, c_profit_margin_pct) = Num(0) <=> Cell(prev, r, c_sales) = Num(0)

\* C4 amended: profit_margin_pct is 0 in every row where sales == 0 and is
\* round(profit / sales * 100, 2) in every row where sales != 0 (a missing
\* operand giving a missing result); the rounded value may itself be 0.
C4_ProfitMargin ==
    pc = "returned" /\ has_margin_inputs(prev) =>
        /\ HasCol(df, c_profit_margin_pct)
        /\ Len(df.rows) = Len(prev.rows)
        /\ MarginRowsRight

\* C4's case: rows of both branches, among them a tie rounded to the even
\* hundredth and a negative sales.
C4_Witness ==
    /\ pc = "returned"
    /\ has_margin_inputs(prev)
    /\ Len(df.rows) = 2
    /\ \E r \in 1..2 : /\ Cell(prev, r, c_sales) = Num(0)
                       /\ Cell(prev, r, c_order_profit_per_order) = Num(50)
                       /\ Cell(df, r, c_profit_margin_pct) = Num(0)
    /\ \E r \in 1..2 : /\ Cell(prev, r, c_sales) \in {Num(32), Num(0 - 3)}
                       /\ Cell(prev, r, c_order_profit_per_order) \in {Num(3), Num(50)}
                       /\ Cell(df, r, c_profit_margin_pct) \in {Num(938), Num(0 - 166667)}

DerivedLabels ==
    {c_shipping_delay_days, c_order_month, c_order_year, c_order_day_of_week,
     c_profit_margin_pct}

\* the labels of prev are the first labels of df, in order
KeepsLabels == /\ Len(df.cols) >= Len(prev.cols)
               /\ \A i \in 1..Len(prev.cols) : df.cols[i] = prev.cols[i]

KeepsColumn(i) == \A r \in 1..Len(prev.rows) : df.rows[r][i] = prev.rows[r][i]

\* a derived column is present after the call only if its prerequisites
\* were present before it, or the label was there already
DerivedOnlyWithPrerequisites ==
    /\ HasCol(df, c_shipping_delay_days) <=>
          has_delay_inputs(prev) \/ HasCol(prev, c_shipping_delay_days)
    /\ \A c \in {c_order_month, c_order_year, c_order_day_of_week} :
          HasCol(df, c) <=> HasCol(prev, c_order_date_dateorders) \/ HasCol(prev, c)
    /\ HasCol(df, c_profit_margin_pct) <=>
          has_margin_inputs(prev) \/ HasCol(prev, c_profit_margin_pct)
    /\ Range(df.cols) \subseteq Range(prev.cols) \cup DerivedLabels

DelayRowsRight ==
    has_delay_inputs(prev) =>
        \A r \in 1..Len(df.rows) :
            LET a == Cell(prev, r, c_days_for_shipping_real)
                b == Cell(prev, r, c_days_for_shipment_scheduled)
            IN  IsNum(a) /\ IsNum(b) =>
                   /\ IsNum(Cell(df, r, c_shipping_delay_days))
                   /\ Cell(df, r, c_shipping_delay_days).n + b.n = a.n

\* C7 as stated: ... and in all cases every pre-existing column keeps its
\* values and the row count is unchanged.
C7_Original ==
    pc = "returned" =>
        /\ DelayRowsRight
        /\ DerivedOnlyWithPrerequisites
        /\ Len(df.rows) = Len(prev.rows)
        /\ KeepsLabels
        /\ \A i \in 1..Len(prev.cols) : KeepsColumn(i)

\* C7 amended: shipping_delay_days is real - scheduled where both are
\* non-null; a derived column is added only when its prerequisites are
\* present; the row count is unchanged and every pre-existing column keeps
\* its values, except one that already bears a derived column's label.
C7_DerivedFeatures ==
    pc = "returned" =>
        /\ DelayRowsRight
        /\ DerivedOnlyWithPrerequisites
        /\ Len(df.rows) = Len(prev.rows)
        /\ KeepsLabels
        /\ \A i \in 1..Len(prev.cols) : prev.cols[i] \notin DerivedLabels => KeepsColumn(i)
        /\ \A i \in 1..Len(prev.cols) :
              /\ prev.cols[i] = c_shipping_delay_days /\ ~ has_delay_inputs(prev)
                    => KeepsColumn(i)
              /\ prev.cols[i] \in {c_order_month, c_order_year, c_order_day_of_week}
                    /\ ~ HasCol(prev, c_order_date_dateorders) => KeepsColumn(i)
              /\ prev.cols[i] = c_profit_margin_pct /\ ~ has_margin_inputs(prev)
                    => KeepsColumn(i)

\* C7's case: a call on a table with both shipping columns and no sales
\* column returned the delay and no margin; the delay is negative.
C7_Witness ==
    /\ pc = "returned"
    /\ has_delay_inputs(prev)
    /\ Len(df.rows) = 2
    /\ Cell(df, 1, c_shipping_delay_days) = Num(0 - 1)
    /\ IsNull(Cell(df, 2, c_shipping_delay_days))
    /\ HasCol(df, c_order_day_of_week)
    /\ Cell(df, 1, c_order_day_of_week) = Str("Saturday")

(***************************************************************************)
(* feature_engineering.py.                                                 *)
(***************************************************************************)
RECURSIVE Insert(_, _)
Insert(x, s) ==
    IF Len(s) = 0 THEN <<x>>
    ELSE IF x <= Head(s) THEN <<x>> \o s
    ELSE <<Head(s)>> \o Insert(x, Tail(s))

RECURSIVE sort_ascending(_)
sort_ascending(s) == IF Len(s) = 0 THEN <<>> ELSE Insert(Head(s), sort_ascending(Tail(s)))

\* the numbers of a column's non-missing cells, ascending (the statistics
\* of the library skip missing values)
sorted_values(cells) ==
    sort_ascending([j \in 1..Len(SelectIdx([i \in 1..Len(cells) |-> IsNum(cells[i])], 1, Len(cells)))
               |-> cells[SelectIdx([i \in 1..Len(cells) |-> IsNum(cells[i])],
                                   1, Len(cells))[j]].n])

\* Series.quantile(num / den), linear interpolation, times den; x is sorted
\* and not empty
quantile_times(x, num, den) ==
    LET pos == (Len(x) - 1) * num
        f == pos \div den
        rem == pos % den
    IN  IF rem = 0 THEN den * x[f + 1]
        ELSE den * x[f + 1] + rem * (x[f + 2] - x[f + 1])

\* twice the lower of the two middle values
median2_lower(x) == 2 * x[(Len(x) + 1) \div 2]

\* twice Series.median() of a sorted, non-empty sequence
median2(x) == x[(Len(x) + 1) \div 2] + x[Len(x) \div 2 + 1]

\* 4 times the five bin edges pd.qcut(sales, q=4) computes
qcut_edges(x) == [k \in 1..5 |-> quantile_times(x, k - 1, 4)]

\* pd.qcut raises ValueError unless the edges are strictly increasing (no
\* value at all gives edges that are all NaN)
qcut_raises(cells) ==
    LET x == sorted_values(cells)
    IN  \/ Len(x) = 0
        \/ \E k \in 1..4 : qcut_edges(x)[k] >= qcut_edges(x)[k + 1]

BucketLabels == <<"Low", "Medium", "High", "Premium">>

\* the label of the first bin (e[k], e[k+1]] that holds v; the first bin
\* includes its left edge
qcut_label(x, v) ==
    IF IsNum(v)
    THEN Str(BucketLabels[CHOOSE k \in 1..4 :
                 /\ 4 * v.n <= qcut_edges(x)[k + 1]
                 /\ \A j \in 1..(k - 1) : 4 * v.n > qcut_edges(x)[j + 1]])
    ELSE Null

Flag(b) == IF b THEN Num(1) ELSE Num(0)

\* feature_engineering.py:28
add_order_value_bucket(t) ==
    LET s == Column(t, c_sales)
        x == sorted_values(s)
    IN  SetCol(t, c_order_value_bucket, "category",
               [r \in 1..Len(t.rows) |-> qcut_label(x, s[r])])

\* feature_engineering.py:31-32; a comparison with NaN is false
add_is_high_discount(t) ==
    IF HasCol(t, c_order_item_discount)
    THEN LET d == Column(t, c_order_item_discount)
             x == sorted_values(d)
         IN  SetCol(t, c_is_high_discount, "int64",
                    [r \in 1..Len(t.rows) |->
                       Flag(IsNum(d[r]) /\ Len(x) > 0 /\ 2 * d[r].n > median2(x))])
    ELSE t

\* feature_engineering.py:35-36
add_is_bulk_order(t) ==
    IF HasCol(t, c_order_item_quantity)
    THEN LET q == Column(t, c_order_item_quantity)
         IN  SetCol(t, c_is_bulk_order, "int64",
                    [r \in 1..Len(t.rows) |-> Flag(IsNum(q[r]) /\ q[r].n > 3)])
    ELSE t

\* feature_engineering.py:39-40
add_is_weekend_order(t) ==
    IF HasCol(t, c_order_day_of_week)
    THEN LET d == Column(t, c_order_day_of_week)
         IN  SetCol(t, c_is_weekend_order, "int64",
                    [r \in 1..Len(t.rows) |->
                       Flag(d[r] \in {Str("Saturday"), Str("Sunday")})])
    ELSE t

\* as if order_item_discount were read without its existence check
create_delivery_prediction_features_error_unguarded(t) ==
    IF ~ HasCol(t, c_sales) \/ ~ HasCol(t, c_order_item_discount) THEN "KeyError"
    ELSE IF qcut_raises(Column(t, c_sales)) THEN "ValueError"
    ELSE "none"

\* the library's error, if the call ends in one: df['sales'] on a table
\* without the column is a KeyError
create_delivery_prediction_features_error(t) ==
    IF ~ HasCol(t, c_sales) THEN "KeyError"
    ELSE IF qcut_raises(Column(t, c_sales)) THEN "ValueError"
    ELSE "none"

create_delivery_prediction_features(t) ==
    add_is_weekend_order(add_is_bulk_order(add_is_high_discount(add_order_value_bucket(t))))

\* feature_engineering.py:50-52
add_extreme_margin(t) ==
    IF HasCol(t, c_profit_margin_pct)
    THEN LET m == Column(t, c_profit_margin_pct)
             x == sorted_values(m)
         IN  SetCol(t, c_extreme_margin, "int64",
                    [r \in 1..Len(t.rows) |->
                       Flag(IsNum(m[r]) /\ Len(x) > 0
                            /\ 20 * m[r].n > quantile_times(x, 19, 20))])
    ELSE t

\* feature_engineering.py:55-56
add_fast_ship(t) ==
    IF HasCol(t, c_days_for_shipping_real)
    THEN LET d == Column(t, c_days_for_shipping_real)
         IN  SetCol(t, c_fast_ship, "int64",
                    [r \in 1..Len(t.rows) |-> Flag(IsNum(d[r]) /\ d[r].n <= 1)])
    ELSE t

\* feature_engineering.py:59-60
add_negative_profit(t) ==
    IF HasCol(t, c_order_profit_per_order)
    THEN LET p == Column(t, c_order_profit_per_order)
         IN  SetCol(t, c_negative_profit, "int64",
                    [r \in 1..Len(t.rows) |-> Flag(IsNum(p[r]) /\ p[r].n < 0)])
    ELSE t

create_fraud_detection_features(t) ==
    add_negative_profit(add_fast_ship(add_extreme_margin(t)))

\* a number of halves: Half(3) is 1.5
Half(n2) == IF n2 % 2 = 0 THEN Num(n2 \div 2) ELSE [k |-> "half", n |-> n2, s |-> ""]

\* df[feature_cols]
select_columns(t, names) ==
    [cols |-> names,
     dtypes |-> [i \in 1..Len(names) |-> DtypeOf(t, names[i])],
     rows |-> [r \in 1..Len(t.rows) |->
                 [i \in 1..Len(names) |-> t.rows[r][ColIdx(t, names[i])]]]]

\* X.fillna(X.median(numeric_only=True)): the missing cells of each numeric
\* column become the column's median; a column with no value has none
fillna_median(X) ==
    [X EXCEPT !.rows =
        [r \in 1..Len(X.rows) |->
           [i \in 1..Len(X.cols) |->
              LET v == X.rows[r][i]
                  x == sorted_values([q \in 1..Len(X.rows) |-> X.rows[q][i]])
              IN  IF IsNull(v) /\ X.dtypes[i] \in NumericDtypes /\ Len(x) > 0
                  THEN Half(median2(x))
                  ELSE v]]]

Sum(x) == LET S[i \in 0..Len(x)] == IF i = 0 THEN 0 ELSE S[i - 1] + x[i] IN S[Len(x)]

\* twice the value of a numeric cell
Twice(v) == IF v.k = "half" THEN v.n ELSE 2 * v.n

\* StandardScaler().fit_transform(X), one cell: (v - mean) / std over the
\* column's values, held exactly as num / sqrt(den); a column without
\* spread is scaled by 1, a missing cell stays missing
scaled_cell(v, column) ==
    LET vals == [j \in 1..Len(SelectIdx([i \in 1..Len(column) |-> ~ IsNull(column[i])],
                                        1, Len(column)))
                   |-> Twice(column[SelectIdx([i \in 1..Len(column) |-> ~ IsNull(column[i])],
                                              1, Len(column))[j]])]
        n == Len(vals)
        num == n * Twice(v) - Sum(vals)
        den == n * Sum([j \in 1..n |-> vals[j] * vals[j]]) - Sum(vals) * Sum(vals)
    IN  IF IsNull(v) THEN [k |-> "null", n |-> 0, s |-> "", d |-> 0]
        ELSE [k |-> "z", n |-> num, s |-> "", d |-> den]

fit_transform(X) ==
    [X EXCEPT !.dtypes = [i \in 1..Len(X.cols) |-> "float64"],
              !.rows = [r \in 1..Len(X.rows) |->
                          [i \in 1..Len(X.cols) |->
                             scaled_cell(X.rows[r][i],
                                         [q \in 1..Len(X.rows) |-> X.rows[q][i]])]]]

\* the library's error, if the call ends in one
prepare_model_data_error(t, target_col, feature_cols, scale) ==
    IF \E i \in 1..Len(feature_cols) : ~ HasCol(t, feature_cols[i]) THEN "KeyError"
    ELSE IF ~ HasCol(t, target_col) THEN "KeyError"
    ELSE IF scale /\ \E i \in 1..Len(feature_cols) :
                        DtypeOf(t, feature_cols[i]) \notin NumericDtypes
    THEN "ValueError"
    ELSE "none"

prepare_model_data(t, target_col, feature_cols, scale) ==
    LET X == fillna_median(select_columns(t, feature_cols))
        y == Column(t, target_col)
    IN  IF scale
        THEN [X |-> fit_transform(X), y |-> y, scaler |-> "StandardScaler"]
        ELSE [X |-> X, y |-> y, scaler |-> "None"]

(***************************************************************************)
(* Specification SpecFeat: one call of create_delivery_prediction_features,*)
(* create_fraud_detection_features or prepare_model_data on a table of 1   *)
(* to MaxFeatRows rows with some of the referenced columns absent.         *)
(***************************************************************************)
FRec(sales, disc, qty, dow, pct, real, profit, late, cat) ==
    [sales |-> sales, disc |-> disc, qty |-> qty, dow |-> dow, pct |-> pct,
     real |-> real, profit |-> profit, late |-> late, cat |-> cat]

FeatRecords ==
    {FRec(Num(100), Num(5), Num(1), Str("Saturday"), Num(5000), Num(1), Num(50), Num(1), Str("a")),
     FRec(Num(200), Num(10), Num(4), Str("Monday"), Num(0 - 250), Num(3), Num(0 - 5), Num(0), Null),
     FRec(Num(300), Null, Num(5), Str("Sunday"), Num(0), Null, Num(0), Num(1), Str("b")),
     FRec(Null, Num(5), Null, Null, Null, Num(2), Null, Num(0), Str("a")),
     FRec(Num(100), Num(20), Num(3), Str("Friday"), Num(9000), Num(0), Num(90), Num(1), Null)}

c_category_name ==
    <<"c", "a", "t", "e", "g", "o", "r", "y", "_", "n", "a", "m", "e">>

FHdrAll ==
    << <<c_sales, "sales">>, <<c_order_item_discount, "disc">>,
       <<c_order_item_quantity, "qty">>, <<c_order_day_of_week, "dow">>,
       <<c_profit_margin_pct, "pct">>, <<c_days_for_shipping_real, "real">>,
       <<c_order_profit_per_order, "profit">>, <<c_late_delivery_risk, "late">>,
       <<c_category_name, "cat">> >>
FHdrNoSales ==
    << <<c_order_item_discount, "disc">>, <<c_order_item_quantity, "qty">>,
       <<c_order_day_of_week, "dow">>, <<c_profit_margin_pct, "pct">>,
       <<c_late_delivery_risk, "late">> >>
FHdrSalesOnly == << <<c_sales, "sales">>, <<c_late_delivery_risk, "late">> >>
FHdrSomeGuarded ==
    << <<c_sales, "sales">>, <<c_order_item_quantity, "qty">>,
       <<c_days_for_shipping_real, "real">>, <<c_late_delivery_risk, "late">> >>
FHdrPrep ==
    << <<c_category_name, "cat">>, <<c_order_item_discount, "disc">>,
       <<c_sales, "sales">>, <<c_order_profit_per_order, "profit">> >>

FeatHeaders == {FHdrAll, FHdrNoSales, FHdrSalesOnly, FHdrSomeGuarded, FHdrPrep}

FeatInputs ==
    {read_csv(h, rs) : h \in FeatHeaders,
                       rs \in UNION {[1..n -> FeatRecords] : n \in 1..MaxFeatRows}}

TargetChoices == {c_late_delivery_risk}
FeatureChoices ==
    {<<c_sales, c_order_item_discount>>, <<c_order_item_discount, c_category_name>>,
     <<c_order_item_quantity>>}

InitFeat ==
    /\ pc = "call"
    /\ df \in FeatInputs
    /\ prev = NoTable
    /\ raw = df
    /\ err = "none"
    /\ res = NoResult

\* the call fn(df, ...) ends in the error e, or returns
Outcome(call, e, t) ==
    /\ res' = call
    /\ IF e # "none"
       THEN /\ pc' = "error"
            /\ err' = e
            /\ UNCHANGED <<df, prev, raw>>
       ELSE /\ pc' = "returned"
            /\ df' = t
            /\ prev' = df
            /\ UNCHANGED <<raw, err>>

\* df = create_delivery_prediction_features(df)
CallCreateDelivery ==
    /\ pc = "call"
    /\ LET e == create_delivery_prediction_features_error(df)
       IN  Outcome([NoResult EXCEPT !.fn = "create_delivery_prediction_features"], e,
                   IF e = "none" THEN create_delivery_prediction_features(df) ELSE df)

\* df = create_fraud_detection_features(df)
CallCreateFraud ==
    /\ pc = "call"
    /\ Outcome([NoResult EXCEPT !.fn = "create_fraud_detection_features"], "none",
               create_fraud_detection_features(df))

\* X, y, scaler = prepare_model_data(df, target_col, feature_cols, scale)
CallPrepareModelData ==
    /\ pc = "call"
    /\ \E target_col \in TargetChoices, feature_cols \in FeatureChoices,
          scale \in BOOLEAN :
          LET e == prepare_model_data_error(df, target_col, feature_cols, scale)
              call == [NoResult EXCEPT !.fn = "prepare_model_data",
                                       !.target = target_col,
                                       !.features = feature_cols,
                                       !.scale = scale]
          IN  Outcome(IF e = "none"
                      THEN [call EXCEPT
                              !.X = prepare_model_data(df, target_col, feature_cols, scale).X,
                              !.y = prepare_model_data(df, target_col, feature_cols, scale).y,
                              !.scaler = prepare_model_data(df, target_col, feature_cols,
                                                            scale).scaler]
                      ELSE call,
                      e, df)

NextFeat == CallCreateDelivery \/ CallCreateFraud \/ CallPrepareModelData

SpecFeat == InitFeat /\ [][NextFeat]_vars

Delivery == res.fn = "create_delivery_prediction_features"
Fraud == res.fn = "create_fraud_detection_features"
Prepare == res.fn = "prepare_model_data"

AllPresent(t, names) == \A c \in names : HasCol(t, c)

\* C8 as stated: a call on a table that lacks a referenced column never
\* returns normally.
C8_Original ==
    pc = "returned" =>
        /\ Delivery => AllPresent(raw, {c_sales, c_order_item_discount,
                                        c_order_item_quantity, c_order_day_of_week})
        /\ Fraud => AllPresent(raw, {c_profit_margin_pct, c_days_for_shipping_real,
                                     c_order_profit_per_order})
        /\ Prepare => AllPresent(raw, {res.target} \cup Range(res.features))

\* C8 amended: only an absent sales column (create_delivery_prediction_features)
\* and an absent target or feature column (prepare_model_data) end the call
\* in the library's KeyError.  The other referenced columns are guarded: when
\* one is absent the call raises nothing for it and returns with the derived
\* column omitted; create_fraud_detection_features always returns.
C8_GuardedColumns ==
    /\ Delivery =>
          /\ ~ HasCol(raw, c_sales) => pc = "error" /\ err = "KeyError"
          /\ pc = "error" /\ err = "KeyError" => ~ HasCol(raw, c_sales)
          /\ pc = "error" /\ err # "KeyError" =>
                err = "ValueError" /\ qcut_raises(Column(raw, c_sales))
          /\ pc = "returned" =>
                /\ HasCol(df, c_order_value_bucket)
                /\ HasCol(df, c_is_high_discount) <=> HasCol(raw, c_order_item_discount)
                /\ HasCol(df, c_is_bulk_order) <=> HasCol(raw, c_order_item_quantity)
                /\ HasCol(df, c_is_weekend_order) <=> HasCol(raw, c_order_day_of_week)
    /\ Fraud =>
          /\ pc = "returned"
          /\ HasCol(df, c_extreme_margin) <=> HasCol(raw, c_profit_margin_pct)
          /\ HasCol(df, c_fast_ship) <=> HasCol(raw, c_days_for_shipping_real)
          /\ HasCol(df, c_negative_profit) <=> HasCol(raw, c_order_profit_per_order)
    /\ Prepare =>
          /\ ~ AllPresent(raw, {res.target} \cup Range(res.features))
                => pc = "error" /\ err = "KeyError"
          /\ pc = "error" /\ err = "KeyError"
                => ~ AllPresent(raw, {res.target} \cup Range(res.features))

\* C8's case: create_delivery_prediction_features returned on a table that
\* has sales and order_item_quantity but no order_item_discount and no
\* order_day_of_week.
C8_Witness ==
    /\ pc = "returned"
    /\ Delivery
    /\ ~ HasCol(raw, c_order_item_discount)
    /\ ~ HasCol(raw, c_order_day_of_week)
    /\ HasCol(df, c_is_bulk_order)
    /\ ~ HasCol(df, c_is_high_discount)
    /\ \E r \in 1..Len(df.rows) : Cell(df, r, c_order_value_bucket) = Str("Premium")

Count(S) == Cardinality(S)

\* the k-th smallest of the numbers of cells: the value with fewer than k
\* numbers below it and at least k numbers not above it
OrderStat(cells, k) ==
    CHOOSE v \in {cells[i].n : i \in {j \in 1..Len(cells) : IsNum(cells[j])}} :
        /\ Count({i \in 1..Len(cells) : IsNum(cells[i]) /\ cells[i].n < v}) < k
        /\ Count({i \in 1..Len(cells) : IsNum(cells[i]) /\ cells[i].n <= v}) >= k

NumCount(cells) == Count({i \in 1..Len(cells) : IsNum(cells[i])})

\* the median of the non-missing numbers of cells, as a cell
MedianCell(cells) ==
    LET n == NumCount(cells)
    IN  Half(OrderStat(cells, (n + 1) \div 2) + OrderStat(cells, n \div 2 + 1))

\* X is the feature columns of the input, each missing cell of a numeric
\* column that has a value replaced by the column's median
FilledWithMedian ==
    /\ res.X.cols = res.features
    /\ Len(res.X.rows) = Len(raw.rows)
    /\ \A i \in 1..Len(res.features), r \in 1..Len(raw.rows) :
          LET v == Cell(raw, r, res.features[i])
              column == Column(raw, res.features[i])
          IN  IF IsNull(v) /\ DtypeOf(raw, res.features[i]) \in NumericDtypes
                 /\ NumCount(column) > 0
              THEN res.X.rows[r][i] = MedianCell(column)
              ELSE res.X.rows[r][i] = v

NoMissingNumeric ==
    \A i \in 1..Len(res.features), r \in 1..Len(raw.rows) :
        DtypeOf(raw, res.features[i]) \in NumericDtypes => ~ IsNull(res.X.rows[r][i])

ReturnsTargetAndNone ==
    /\ res.y = Column(raw, res.target)
    /\ res.scaler = "None"
    /\ df = raw

====
